---- MODULE Spec2Model ----
(***************************************************************************)
(* Model of the PDF renamer of src/Convert_doc_to_PDF.py (the part headed  *)
(* "PDF Renamer.py"): the text normalizer, the similarity primitives, the  *)
(* match strategy cascade, the rename batch with its backup ledger         *)
(* (rename_backup.json) and the undo pass.                                 *)
(*                                                                         *)
(* A string is a sequence of characters, each character a one-element      *)
(* TLA+ string.  Two characters stand for code points outside ASCII:       *)
(* "I_dot" is U+0130 (capital I with dot above) and "dot_above" is U+0307  *)
(* (combining dot above).  A score is an exact fraction <<n, d>>, d > 0.   *)
(***************************************************************************)
EXTENDS Integers, Sequences, FiniteSets, TLC

(***************************************************************************)
(* Characters                                                              *)
(***************************************************************************)
LowerLetters ==
    {"a","b","c","d","e","f","g","h","i","j","k","l","m",
     "n","o","p","q","r","s","t","u","v","w","x","y","z"}

UpperSeq ==
    <<"A","B","C","D","E","F","G","H","I","J","K","L","M",
      "N","O","P","Q","R","S","T","U","V","W","X","Y","Z">>

LowerSeq ==
    <<"a","b","c","d","e","f","g","h","i","j","k","l","m",
      "n","o","p","q","r","s","t","u","v","w","x","y","z">>

UpperLetters == {UpperSeq[i] : i \in DOMAIN UpperSeq}

Digits == {"0","1","2","3","4","5","6","7","8","9"}

\* re: \w  (letters, digits and the underscore)
IsWordChar(c) == c \in LowerLetters \cup UpperLetters \cup Digits \cup {"_", "I_dot"}

\* re: \s
IsSpaceChar(c) == c \in {" ", "\t"}

\* str.lower() of one character: a sequence, since U+0130 lowers to two code points
LowerChar(c) ==
    IF c \in UpperLetters
    THEN <<LowerSeq[CHOOSE i \in DOMAIN UpperSeq : UpperSeq[i] = c]>>
    ELSE IF c = "I_dot" THEN <<"i", "dot_above">>
    ELSE <<c>>

RECURSIVE LowerStr(_)
LowerStr(s) == IF s = <<>> THEN <<>> ELSE LowerChar(Head(s)) \o LowerStr(Tail(s))

(***************************************************************************)
(* Text normalizer                                                         *)
(***************************************************************************)
\* text.replace('_', ' ').replace('-', ' ').replace('.', ' ')
ReplaceSeparators(s) ==
    [i \in DOMAIN s |-> IF s[i] \in {"_", "-", "."} THEN " " ELSE s[i]]

\* re.sub(r'[^\w\s]', ' ', text)
RemoveSpecial(s) ==
    [i \in DOMAIN s |-> IF IsWordChar(s[i]) \/ IsSpaceChar(s[i]) THEN s[i] ELSE " "]

\* re.sub(r'\s+', ' ', cleaned): every run of whitespace becomes one space
RECURSIVE CollapseSpaces(_)
CollapseSpaces(s) ==
    IF s = <<>> THEN <<>>
    ELSE IF IsSpaceChar(Head(s))
         THEN IF Len(s) > 1 /\ IsSpaceChar(s[2])
              THEN CollapseSpaces(Tail(s))
              ELSE <<" ">> \o CollapseSpaces(Tail(s))
         ELSE <<Head(s)>> \o CollapseSpaces(Tail(s))

\* str.strip()
RECURSIVE Strip(_)
Strip(s) ==
    IF s = <<>> THEN <<>>
    ELSE IF IsSpaceChar(Head(s)) THEN Strip(Tail(s))
    ELSE IF IsSpaceChar(s[Len(s)]) THEN Strip(SubSeq(s, 1, Len(s) - 1))
    ELSE s

clean_text_for_matching(text) ==
    LowerStr(Strip(CollapseSpaces(RemoveSpecial(ReplaceSeparators(text)))))

stop_words ==
    { <<"t","h","e">>, <<"a","n","d">>, <<"f","o","r">>, <<"a","r","e">>,
      <<"b","u","t">>, <<"n","o","t">>, <<"y","o","u">>, <<"a","l","l">>,
      <<"c","a","n">>, <<"h","a","d">>, <<"h","e","r">>, <<"w","a","s">>,
      <<"o","n","e">>, <<"o","u","r">>, <<"o","u","t">>, <<"d","a","y">>,
      <<"g","e","t">>, <<"h","a","s">>, <<"h","i","m">>, <<"h","i","s">>,
      <<"h","o","w">>, <<"i","t","s">>, <<"m","a","y">>, <<"n","e","w">>,
      <<"n","o","w">>, <<"o","l","d">>, <<"s","e","e">>, <<"t","w","o">>,
      <<"w","a","y">>, <<"w","h","o">>, <<"b","o","y">>, <<"d","i","d">>,
      <<"m","a","n">>, <<"e","n","d">>, <<"f","e","w">>, <<"g","o","t">>,
      <<"l","e","t">>, <<"p","u","t">>, <<"s","a","y">>, <<"s","h","e">>,
      <<"t","o","o">>, <<"u","s","e">>
    }

\* re.findall(r'\w+', s): the maximal runs of word characters, in order
RECURSIVE FindWords(_, _)
FindWords(s, cur) ==
    IF s = <<>> THEN (IF cur = <<>> THEN <<>> ELSE <<cur>>)
    ELSE IF IsWordChar(Head(s)) THEN FindWords(Tail(s), Append(cur, Head(s)))
    ELSE (IF cur = <<>> THEN <<>> ELSE <<cur>>) \o FindWords(Tail(s), <<>>)

\* str.isdigit()
IsDigitWord(w) == w # <<>> /\ \A i \in DOMAIN w : w[i] \in Digits

min_length == 3

\* faulty variant of FilterWords: the stop words are kept
FilterWordsKeepingStopWords(ws) ==
    SelectSeq(ws, LAMBDA w : Len(w) >= min_length /\ ~IsDigitWord(w))

RECURSIVE FilterWords(_)
FilterWords(ws) ==
    IF ws = <<>> THEN <<>>
    ELSE IF /\ Len(Head(ws)) >= min_length
            /\ Head(ws) \notin stop_words
            /\ ~IsDigitWord(Head(ws))
         THEN <<Head(ws)>> \o FilterWords(Tail(ws))
         ELSE FilterWords(Tail(ws))

extract_meaningful_words(text) ==
    FilterWords(FindWords(LowerStr(clean_text_for_matching(text)), <<>>))

(***************************************************************************)
(* Fractions                                                               *)
(***************************************************************************)
Frac(n, d) == <<n, d>>
FGt(f, g) == f[1] * g[2] > g[1] * f[2]
FGe(f, g) == f[1] * g[2] >= g[1] * f[2]
FEq(f, g) == f[1] * g[2] = g[1] * f[2]
FMul(f, g) == <<f[1] * g[1], f[2] * g[2]>>
FAdd(f, g) == <<f[1] * g[2] + g[1] * f[2], f[2] * g[2]>>
FMin(f, g) == IF FGt(f, g) THEN g ELSE f
Max(a, b) == IF a > b THEN a ELSE b
Min(a, b) == IF a < b THEN a ELSE b
SeqToSet(s) == {s[i] : i \in DOMAIN s}

(***************************************************************************)
(* Similarity primitives                                                   *)
(***************************************************************************)
\* Op applied to the value of v, which is evaluated once
With(v, Op(_)) == CHOOSE r \in {Op(e) : e \in {v}} : TRUE

\* length of the common run of x from i and y from j (1-based), inside x[..xhi], y[..yhi]
RECURSIVE RunLen(_, _, _, _, _, _)
RunLen(x, i, xhi, y, j, yhi) ==
    IF i > xhi \/ j > yhi \/ x[i] # y[j] THEN 0
    ELSE 1 + RunLen(x, i + 1, xhi, y, j + 1, yhi)

\* The scan behind find_longest_match: every start (i, j) of the range q in
\* increasing order of i, then of j; a longer common run replaces the best so far
RECURSIVE ScanRow(_, _, _, _, _, _)
ScanRow(x, y, q, i, j, best) ==
    IF j > q.bhi THEN best
    ELSE With(RunLen(x, i, q.ahi, y, j, q.bhi),
              LAMBDA k : ScanRow(x, y, q, i, j + 1,
                                 IF k > best[3] THEN <<i, j, k>> ELSE best))

RECURSIVE ScanBlocks(_, _, _, _, _)
ScanBlocks(x, y, q, i, best) ==
    IF i > q.ahi THEN best
    ELSE With(ScanRow(x, y, q, i, q.blo, best),
              LAMBDA row : ScanBlocks(x, y, q, i + 1, row))

\* difflib.SequenceMatcher.find_longest_match on x[alo..ahi], y[blo..bhi] (inclusive,
\* 1-based): the longest common block, the earliest in x, then the earliest in y
find_longest_match(x, y, q) ==
    IF q.alo > q.ahi \/ q.blo > q.bhi THEN <<q.alo, q.blo, 0>>
    ELSE ScanBlocks(x, y, q, q.alo, <<q.alo, q.blo, 0>>)

\* the work list of get_matching_blocks after the range q gave the block m
QueueAfter(queue, q, m) ==
    IF m[3] = 0 THEN Tail(queue)
    ELSE Tail(queue) \o
         << [alo |-> q.alo, ahi |-> m[1] - 1, blo |-> q.blo, bhi |-> m[2] - 1],
            [alo |-> m[1] + m[3], ahi |-> q.ahi, blo |-> m[2] + m[3], bhi |-> q.bhi] >>

\* sum of the sizes of difflib's get_matching_blocks: a work list of the ranges
\* still to compare, each split around its longest common block
RECURSIVE MatchingTotal(_, _, _, _)
MatchingTotal(x, y, queue, total) ==
    IF queue = <<>> THEN total
    ELSE With(find_longest_match(x, y, Head(queue)),
              LAMBDA m : With(<<QueueAfter(queue, Head(queue), m), total + m[3]>>,
                              LAMBDA n : MatchingTotal(x, y, n[1], n[2])))

\* SequenceMatcher(None, a.lower(), b.lower()).ratio() = 2*M/T, 1.0 when T = 0
similarity(a, b) ==
    With(<<LowerStr(a), LowerStr(b)>>,
         LAMBDA l :
            IF Len(l[1]) + Len(l[2]) = 0 THEN Frac(1, 1)
            ELSE Frac(2 * MatchingTotal(l[1], l[2],
                          <<[alo |-> 1, ahi |-> Len(l[1]), blo |-> 1, bhi |-> Len(l[2])]>>, 0),
                      Len(l[1]) + Len(l[2])))

calculate_word_overlap_score(pdf_words, doc_words) ==
    IF pdf_words = <<>> \/ doc_words = <<>> THEN Frac(0, 1)
    ELSE LET pdf_set == SeqToSet(pdf_words)
             doc_set == SeqToSet(doc_words)
             inter   == Cardinality(pdf_set \cap doc_set)
             union   == Cardinality(pdf_set \cup doc_set)
             jaccard_score == Frac(inter, union)
             match_bonus   == FMin(Frac(inter, 10), Frac(3, 10))
         IN  FMin(FAdd(jaccard_score, match_bonus), Frac(1, 1))

fuzzy_word_match(word1, word2) ==
    IF Len(word1) < 4 \/ Len(word2) < 4 THEN word1 = word2
    ELSE FGe(similarity(word1, word2), Frac(85, 100))

(***************************************************************************)
(* Match strategy cascade (the body of the loop over name_to_number)       *)
(***************************************************************************)
\* Python's `x in y` on strings
IsSubstring(x, y) ==
    \E i \in 0..(Len(y) - Len(x)) : SubSeq(y, i + 1, i + Len(x)) = x

NoCandidate == [type |-> "none", score |-> Frac(0, 1)]

\* faulty variant of WordOverlapFires: a score of exactly 0.7 qualifies
WordOverlapFiresFromThreshold(pdf_words, doc_words) ==
    /\ FGe(calculate_word_overlap_score(pdf_words, doc_words), Frac(7, 10))
    /\ Len(pdf_words) >= 2
    /\ Len(doc_words) >= 2

\* Strategy 2
WordOverlapFires(pdf_words, doc_words) ==
    /\ FGt(calculate_word_overlap_score(pdf_words, doc_words), Frac(7, 10))
    /\ Len(pdf_words) >= 2
    /\ Len(doc_words) >= 2

\* Strategy 3, both directions
SubstringCandidate(clean_pdf_name, clean_doc_name) ==
    LET longer == Max(Len(clean_pdf_name), Len(clean_doc_name))
    IN  IF IsSubstring(clean_doc_name, clean_pdf_name)
        THEN LET overlap_ratio == Frac(Len(clean_doc_name), longer)
             IN  IF FGt(overlap_ratio, Frac(6, 10))
                 THEN [type |-> "substring", score |-> FMul(overlap_ratio, Frac(8, 10))]
                 ELSE NoCandidate
        ELSE IF IsSubstring(clean_pdf_name, clean_doc_name) /\ Len(clean_pdf_name) > 8
        THEN LET overlap_ratio == Frac(Len(clean_pdf_name), longer)
             IN  IF FGt(overlap_ratio, Frac(6, 10))
                 THEN [type |-> "reverse", score |-> FMul(overlap_ratio, Frac(75, 100))]
                 ELSE NoCandidate
        ELSE NoCandidate

\* fuzzy_matches: one per pdf word (by position) that fuzzy-matches some doc word
FuzzyMatches(pdf_words, doc_words) ==
    Cardinality({i \in DOMAIN pdf_words :
                    \E j \in DOMAIN doc_words : fuzzy_word_match(pdf_words[i], doc_words[j])})

\* Strategy 4
FuzzyCandidate(pdf_words, doc_words) ==
    LET fuzzy_matches == FuzzyMatches(pdf_words, doc_words)
        fuzzy_score   == Frac(fuzzy_matches, Max(Len(pdf_words), Len(doc_words)))
    IN  IF FGt(fuzzy_score, Frac(6, 10)) /\ fuzzy_matches >= 2
        THEN [type |-> "fuzzy_words", score |-> FMul(fuzzy_score, Frac(7, 10))]
        ELSE NoCandidate

\* Strategy 5
SimilarityCandidate(clean_pdf_name, clean_doc_name) ==
    LET sim_score == similarity(clean_pdf_name, clean_doc_name)
    IN  IF /\ FGt(sim_score, Frac(85, 100))
           /\ Len(clean_pdf_name) > 6
           /\ Len(clean_doc_name) > 6
        THEN [type |-> "high_similarity", score |-> FMul(sim_score, Frac(6, 10))]
        ELSE NoCandidate

\* faulty variant of Candidate: a long reference name that gives no substring
\* candidate falls through to the fuzzy and similarity strategies
CandidateFallingThrough(pdf_name, doc_name) ==
    LET pdf_clean == clean_text_for_matching(pdf_name)
        pdf_toks  == extract_meaningful_words(pdf_name)
        doc_clean == clean_text_for_matching(doc_name)
        doc_toks  == extract_meaningful_words(doc_name)
    IN  IF WordOverlapFires(pdf_toks, doc_toks)
        THEN [type  |-> "word_overlap",
              score |-> calculate_word_overlap_score(pdf_toks, doc_toks)]
        ELSE IF Len(doc_clean) > 8 /\ SubstringCandidate(pdf_clean, doc_clean).type # "none"
        THEN SubstringCandidate(pdf_clean, doc_clean)
        ELSE IF Len(pdf_toks) >= 2 /\ Len(doc_toks) >= 2
        THEN FuzzyCandidate(pdf_toks, doc_toks)
        ELSE SimilarityCandidate(pdf_clean, doc_clean)

\* The if / elif chain of strategies 2 to 5 for one (file, entry) pair that is no exact
\* hit: which branch is taken, and the candidate it records (or none)
Candidate(pdf_name, doc_name) ==
    LET pdf_clean == clean_text_for_matching(pdf_name)
        pdf_toks  == extract_meaningful_words(pdf_name)
        doc_clean == clean_text_for_matching(doc_name)
        doc_toks  == extract_meaningful_words(doc_name)
    IN  IF WordOverlapFires(pdf_toks, doc_toks)
        THEN [type  |-> "word_overlap",
              score |-> calculate_word_overlap_score(pdf_toks, doc_toks)]
        ELSE IF Len(doc_clean) > 8
        THEN SubstringCandidate(pdf_clean, doc_clean)
        ELSE IF Len(pdf_toks) >= 2 /\ Len(doc_toks) >= 2
        THEN FuzzyCandidate(pdf_toks, doc_toks)
        ELSE SimilarityCandidate(pdf_clean, doc_clean)

\* faulty variant of IsExact: the names are compared as written, not normalized
IsExactRaw(pdf_name, doc_name) == pdf_name = doc_name

\* Strategy 1
IsExact(pdf_name, doc_name) ==
    clean_text_for_matching(pdf_name) = clean_text_for_matching(doc_name)

\* faulty variant of BeatsBest: the comparison is left out, the last candidate wins
BeatsBestAlways(score, best_score) == TRUE

\* `if score > best_score:` guarding the five assignments to best_*
BeatsBest(score, best_score) == FGt(score, best_score)

None == "None"

\* the per-file locals before the loop over name_to_number
InitialBest ==
    [matched |-> FALSE, exact |-> None,
     best_match |-> None, best_score |-> Frac(0, 1),
     best_doc_number |-> None, best_match_type |-> None]

\* One iteration of `for doc_name, doc_number in name_to_number.items()`;
\* after an exact hit (matched) the loop has been left and nothing changes
LoopStep(st, pdf_name, entry) ==
    IF st.matched THEN st
    ELSE IF IsExact(pdf_name, entry.name)
    THEN [st EXCEPT !.matched = TRUE, !.exact = entry]
    ELSE LET c == Candidate(pdf_name, entry.name)
         IN  IF c.type # "none" /\ BeatsBest(c.score, st.best_score)
             THEN [st EXCEPT !.best_match = entry.name, !.best_score = c.score,
                             !.best_doc_number = entry.number,
                             !.best_match_type = c.type]
             ELSE st

RECURSIVE LoopFrom(_, _, _, _)
LoopFrom(st, pdf_name, table, i) ==
    IF i > Len(table) THEN st
    ELSE LoopFrom(LoopStep(st, pdf_name, table[i]), pdf_name, table, i + 1)

\* faulty variant of BestAccepted: a best score of exactly 0.5 is accepted
BestAcceptedFromHalf(st) ==
    /\ ~st.matched
    /\ st.best_match # None
    /\ FGe(st.best_score, Frac(5, 10))

\* `if not matched and best_match and best_score > 0.5`
BestAccepted(st) ==
    /\ ~st.matched
    /\ st.best_match # None
    /\ st.best_match # <<>>
    /\ FGt(st.best_score, Frac(5, 10))

\* What the file contributes after its loop: a tuple appended to matches, or the
\* file appended to unmatched_pdfs
Outcome(st) ==
    IF st.matched
    THEN [kind |-> "match", doc_number |-> st.exact.number,
          matched_name |-> st.exact.name, match_type |-> "exact"]
    ELSE IF BestAccepted(st)
    THEN [kind |-> "match", doc_number |-> st.best_doc_number,
          matched_name |-> st.best_match, match_type |-> st.best_match_type]
    ELSE [kind |-> "unmatched", doc_number |-> None,
          matched_name |-> None, match_type |-> None]

MatchFile(pdf_name, table) == Outcome(LoopFrom(InitialBest, pdf_name, table, 1))

\* the file is still in its loop over name_to_number
Pending ==
    [kind |-> "pending", doc_number |-> None, matched_name |-> None, match_type |-> None]

\* faulty variant of Recorded: every strategy is tried on its own (`if` for `elif`)
RecordedIndependently(pdf_name, doc_name) ==
    LET pdf_clean == clean_text_for_matching(pdf_name)
        pdf_toks  == extract_meaningful_words(pdf_name)
        doc_clean == clean_text_for_matching(doc_name)
        doc_toks  == extract_meaningful_words(doc_name)
        tried == << IF WordOverlapFires(pdf_toks, doc_toks)
                    THEN [type  |-> "word_overlap",
                          score |-> calculate_word_overlap_score(pdf_toks, doc_toks)]
                    ELSE NoCandidate,
                    SubstringCandidate(pdf_clean, doc_clean),
                    FuzzyCandidate(pdf_toks, doc_toks),
                    SimilarityCandidate(pdf_clean, doc_clean) >>
    IN  SelectSeq(tried, LAMBDA c : c.type # "none")

\* the candidates the if / elif chain records for a pair that is no exact hit
Recorded(pdf_name, doc_name) ==
    LET c == Candidate(pdf_name, doc_name)
    IN  IF c.type = "none" THEN <<>> ELSE <<c>>

\* what one iteration of the loop does with its entry: an exact hit (and break), or
\* the candidates recorded by strategies 2 to 5
PairOf(pdf_name, entry) ==
    IF IsExact(pdf_name, entry.name)
    THEN [name |-> entry.name, exact |-> TRUE, recorded |-> <<>>]
    ELSE [name |-> entry.name, exact |-> FALSE, recorded |-> Recorded(pdf_name, entry.name)]

NoPair == [name |-> <<>>, exact |-> FALSE, recorded |-> <<>>]

(***************************************************************************)
(* Ordered mappings (Python dicts keep insertion order; so does the JSON    *)
(* ledger): a sequence of [key, value] records with distinct keys           *)
(***************************************************************************)
Keys(m) == {m[i].key : i \in DOMAIN m}

HasKey(m, k) == \E i \in DOMAIN m : m[i].key = k

Lookup(m, k) == m[CHOOSE i \in DOMAIN m : m[i].key = k].value

\* d[k] = v: an existing key keeps its position, a new key goes last
MapSet(m, k, v) ==
    IF HasKey(m, k)
    THEN [i \in DOMAIN m |-> IF m[i].key = k THEN [key |-> k, value |-> v] ELSE m[i]]
    ELSE Append(m, [key |-> k, value |-> v])

\* d.update(other)
RECURSIVE MapUpdate(_, _)
MapUpdate(m, other) ==
    IF other = <<>> THEN m
    ELSE MapUpdate(MapSet(m, Head(other).key, Head(other).value), Tail(other))

\* {k: v for k, v in d.items() if k not in removed}
RECURSIVE MapWithout(_, _)
MapWithout(m, removed) ==
    IF m = <<>> THEN <<>>
    ELSE IF Head(m).key \in removed THEN MapWithout(Tail(m), removed)
    ELSE <<Head(m)>> \o MapWithout(Tail(m), removed)

(***************************************************************************)
(* Bounds and input pools                                                  *)
(***************************************************************************)
\* confirmed rename batches in one run of the menu loop
MaxSessions == 2
\* I/O failures (a rename or a ledger write that raises) in one run
MaxFailures == 1
\* entries of the reference table read by one rename operation
MaxTable == 2

PlanNorth == <<"p","l","a","n"," ","n","o","r","t","h">>

Root == "."
Sub  == "sub"

Path(d, stem) == [dir |-> d, stem |-> stem]

\* the folders the run may start from (every file is a .pdf, named by its stem)
InitialFolders ==
    { {Path(Root, PlanNorth), Path(Root, <<"7">> \o PlanNorth)},
      {Path(Root, PlanNorth), Path(Sub, PlanNorth)} }

Entry(name, number) == [name |-> name, number |-> number]

\* rows the reference table of a rename operation is made of
RenamePool ==
    { Entry(PlanNorth, <<"7","7">>),
      Entry(<<"7">> \o PlanNorth, <<"7">>) }

\* name_to_number for a pool: the sequences of rows with distinct names
TablesOver(pool, n) ==
    UNION { {t \in [1..k -> pool] :
                \A i, j \in 1..k : i # j => t[i].name # t[j].name} : k \in 0..n }

\* what the user may type at a confirmation prompt
Answers ==
    { <<"y">>, <<"y","e","s">>, <<"Y">>, <<" ","y","e","s"," ">>, <<"n">>, <<>> }

\* all listings of a set of files, each file once (the order of rglob is not specified)
Orderings(S) ==
    {o \in [1..Cardinality(S) -> S] : \A i, j \in DOMAIN o : i # j => o[i] # o[j]}

(***************************************************************************)
(* State                                                                   *)
(***************************************************************************)
VARIABLES
    fs,                \* the .pdf files under the folder: path -> content (file identity)
    dirs,              \* the directories under the folder
    backup_file,       \* rename_backup.json: [state: absent | valid | corrupt, data]
    pc,                \* menu | rename_prompt | rename_loop | rename_save |
                       \* undo_prompt | undo_loop | undo_save
    matches,           \* rename: the tuples to rename, in order (locals are reset on return)
    idx,               \* position of the running for loop
    rename_history,    \* rename: new relative path -> original relative path
    renamed_count,
    backup_data,       \* undo: the ledger as loaded
    revertible_files,  \* undo: [current, original] of the entries whose file exists
    reverted_items,    \* undo: keys moved back
    reverted_count,
    skipped_count,
    report,            \* the outcome the last operation printed
    sessions,          \* confirmed rename batches so far
    failures,          \* I/O failures so far
    typed,             \* what the user typed, when the step just taken read the prompt
    batch,             \* the last confirmed batch: items renamed, items failed, items skipped
    since_batch,       \* since that batch's loop: confirmed undo passes, whether an I/O
                       \* call failed, the keys the running or last undo pass moved back
    m_pdf_name,        \* matcher: the stem of the file under analysis
    name_to_number,    \* the reference table (rows with distinct names, in row order)
    m_idx,             \* matcher: position of the loop over name_to_number
    m_state,           \* matcher: matched, best_match, best_score, best_doc_number, ...
    m_out,             \* matcher: what the file contributed (match tuple or unmatched)
    m_pair,            \* matcher: what the last iteration of the loop did with its entry
    t_pc,              \* text functions: input | cleaned | twice | tokenized
    t_text,            \* text functions: the argument
    t_clean,           \* clean_text_for_matching(t_text)
    t_twice,           \* clean_text_for_matching(t_clean)
    t_words            \* extract_meaningful_words(t_text)

folderVars == <<fs, dirs, backup_file>>
renameVars == <<matches, rename_history, renamed_count>>
undoVars   == <<backup_data, revertible_files, reverted_items, reverted_count, skipped_count>>
matchVars  == <<m_pdf_name, name_to_number, m_idx, m_state, m_out, m_pair>>
textVars   == <<t_pc, t_text, t_clean, t_twice, t_words>>
vars == <<fs, dirs, backup_file, pc, matches, idx, rename_history, renamed_count,
          backup_data, revertible_files, reverted_items, reverted_count, skipped_count,
          report, typed, sessions, failures, batch, since_batch,
          m_pdf_name, name_to_number, m_idx, m_state, m_out, m_pair,
          t_pc, t_text, t_clean, t_twice, t_words>>

Absent == [state |-> "absent", data |-> <<>>]
Corrupt == [state |-> "corrupt", data |-> <<>>]
Valid(m) == [state |-> "valid", data |-> m]

Exists(files, p) == p \in DOMAIN files

\* since_batch.undo_passes counts the confirmed undo passes up to this many
PassesCounted == 2

\* the value of typed after a step that read no prompt (no string of characters)
NoAnswer == <<None>>

EmptyBatch == [renamed |-> {}, failed |-> {}, skipped |-> {}]
Quiet == [undo_passes |-> 0, io_failed |-> FALSE, moved |-> {}]

(***************************************************************************)
(* Helpers of the two operations                                           *)
(***************************************************************************)
\* faulty variant of IsAffirmative: everything but a refusal counts as consent
IsAffirmativeUnlessNo(answer) == LowerStr(Strip(answer)) \notin {<<"n">>, <<"n","o">>}

\* input(...).strip().lower() in ['y', 'yes']
IsAffirmative(answer) == LowerStr(Strip(answer)) \in {<<"y">>, <<"y","e","s">>}

\* Path.rename(target) when it does not raise: the file leaves src and is at dst
\* (a target that exists is replaced, as on POSIX; where the platform refuses
\* instead, the call raises and the caller's except branch is taken)
Move(files, src, dst) ==
    [p \in (DOMAIN files \ {src}) \cup {dst} |-> IF p = dst THEN files[src] ELSE files[p]]

RenameTables == TablesOver(RenamePool, MaxTable)

\* matches, from the loop over pdf_files (in listing order) and name_to_number
RECURSIVE ComputeMatches(_, _)
ComputeMatches(listing, table) ==
    IF listing = <<>> THEN <<>>
    ELSE LET o == MatchFile(Head(listing).stem, table)
         IN  (IF o.kind = "match"
              THEN << [pdf_file |-> Head(listing), doc_number |-> o.doc_number,
                       matched_name |-> o.matched_name, match_type |-> o.match_type] >>
              ELSE <<>>)
             \o ComputeMatches(Tail(listing), table)

\* new_path = pdf_file.parent / f"{doc_number}{pdf_file.stem}.pdf"
NewPath(m) == Path(m.pdf_file.dir, m.doc_number \o m.pdf_file.stem)

\* faulty variant of TargetExists: the existence check is left out
TargetExistsNever(files, new_path) == FALSE

\* `if new_path.exists():` of the rename loop
TargetExists(files, new_path) == Exists(files, new_path)

\* faulty variant of RecordRename: key and value are swapped
RecordRenameSwapped(history, original_path, new_path) ==
    MapSet(history, original_path, new_path)

\* rename_history[relative_new_path] = relative_original_path, which the loop
\* executes before pdf_file.rename: the entry stays when the rename raises
RecordRename(history, original_path, new_path) == MapSet(history, new_path, original_path)

\* the ledger file after the `if rename_history:` block, for each way the write can go
LedgerAfterMerge(file, history, write) ==
    IF history = <<>> THEN file
    ELSE IF file.state = "corrupt" THEN file              \* json.load raises
    ELSE IF write = "open_fails" THEN file                \* open(..., 'w') raises
    ELSE IF write = "dump_fails" THEN Corrupt             \* truncated, then json.dump raises
    ELSE Valid(MapUpdate(file.data, history))

WriteOutcomes == {"ok", "open_fails", "dump_fails"}

(***************************************************************************)
(* rename_pdfs_with_document_numbers                                       *)
(***************************************************************************)
\* From the menu to the confirmation prompt: read the table, list the files, match,
\* show the summary.  The operation returns early when there is nothing to rename.
RenameScan(listing) ==
    /\ pc = "menu"
    /\ LET ms == ComputeMatches(listing, name_to_number)
           early == IF name_to_number = <<>> THEN "no_pairs"
                    ELSE IF listing = <<>> THEN "no_pdfs"
                    ELSE IF ms = <<>> THEN "no_matches"
                    ELSE "ask"
       IN  IF early # "ask"
           THEN /\ report' = [op |-> "rename", outcome |-> early]
                /\ UNCHANGED <<pc, matches>>
           ELSE /\ report' = [op |-> "rename", outcome |-> "summary"]
                /\ pc' = "rename_prompt"
                /\ matches' = ms
    /\ typed' = NoAnswer
    /\ UNCHANGED <<folderVars, idx, rename_history, renamed_count, undoVars,
                   sessions, failures, batch, since_batch, matchVars, textVars>>

\* proceed = input("Proceed with renaming ...").strip().lower()
RenameConfirm(answer) ==
    /\ pc = "rename_prompt"
    /\ typed' = answer
    /\ IF ~IsAffirmative(answer)
       THEN /\ report' = [op |-> "rename", outcome |-> "cancelled"]
            /\ pc' = "menu"
            /\ matches' = <<>>
            /\ UNCHANGED <<idx, rename_history, renamed_count, sessions, batch, since_batch>>
       ELSE /\ report' = [op |-> "rename", outcome |-> "renaming"]
            /\ pc' = "rename_loop"
            /\ idx' = 1
            /\ rename_history' = <<>>
            /\ renamed_count' = 0
            /\ sessions' = sessions + 1
            /\ batch' = EmptyBatch
            /\ since_batch' = Quiet
            /\ UNCHANGED matches
    /\ UNCHANGED <<folderVars, undoVars, failures, matchVars, textVars>>

\* One iteration of `for match_data in matches:`
RenameItem(raises) ==
    /\ pc = "rename_loop"
    /\ LET m        == matches[idx]
           pdf_file == m.pdf_file
           new_path == NewPath(m)
           item     == [original |-> pdf_file, new |-> new_path,
                        file |-> IF Exists(fs, pdf_file) THEN fs[pdf_file] ELSE None]
       IN  IF TargetExists(fs, new_path)
           THEN /\ ~raises
                /\ batch' = [batch EXCEPT !.skipped = @ \cup {item}]
                /\ UNCHANGED <<fs, rename_history, renamed_count, failures, since_batch>>
           ELSE IF raises \/ ~Exists(fs, pdf_file)
           THEN /\ raises => failures < MaxFailures
                /\ rename_history' = RecordRename(rename_history, pdf_file, new_path)
                /\ failures' = failures + 1
                /\ batch' = [batch EXCEPT !.failed = @ \cup {item}]
                /\ since_batch' = [since_batch EXCEPT !.io_failed = TRUE]
                /\ UNCHANGED <<fs, renamed_count>>
           ELSE /\ rename_history' = RecordRename(rename_history, pdf_file, new_path)
                /\ fs' = Move(fs, pdf_file, new_path)
                /\ renamed_count' = renamed_count + 1
                /\ batch' = [batch EXCEPT !.renamed = @ \cup {item}]
                /\ UNCHANGED <<failures, since_batch>>
    /\ idx' = idx + 1
    /\ typed' = NoAnswer
    /\ pc' = IF idx = Len(matches) THEN "rename_save" ELSE "rename_loop"
    /\ UNCHANGED <<dirs, backup_file, matches, undoVars, report, sessions, matchVars, textVars>>

\* After the loop: merge rename_history into rename_backup.json and print the count
RenameSave(write) ==
    /\ pc = "rename_save"
    /\ LET attempted == rename_history # <<>> /\ backup_file.state # "corrupt"
           warned    == rename_history # <<>> /\ (backup_file.state = "corrupt" \/ write # "ok")
       IN  /\ (write # "ok") => (attempted /\ failures < MaxFailures)
           /\ backup_file' = LedgerAfterMerge(backup_file, rename_history, write)
           /\ failures' = IF write # "ok" THEN failures + 1 ELSE failures
           /\ since_batch' = IF warned THEN [since_batch EXCEPT !.io_failed = TRUE]
                             ELSE since_batch
           /\ report' = [op |-> "rename",
                         outcome |-> IF ~warned THEN "renamed"
                                     ELSE IF backup_file.state = "corrupt"
                                     THEN "renamed_backup_unreadable"
                                     ELSE "renamed_backup_unwritable"]
           /\ typed' = NoAnswer
    /\ pc' = "menu"
    /\ matches' = <<>> /\ idx' = 0 /\ rename_history' = <<>> /\ renamed_count' = 0
    /\ UNCHANGED <<fs, dirs, undoVars, sessions, batch, matchVars, textVars>>

(***************************************************************************)
(* undo_renames                                                            *)
(***************************************************************************)
\* the entries of the loaded ledger whose current path exists, in ledger order
RECURSIVE Revertible(_, _)
Revertible(data, files) ==
    IF data = <<>> THEN <<>>
    ELSE (IF Exists(files, Head(data).key)
          THEN << [current |-> Head(data).key, original |-> Head(data).value] >>
          ELSE <<>>)
         \o Revertible(Tail(data), files)

\* `if original_path.exists() and original_path != current_path:` of the undo loop
UndoBlocked(files, current_path, original_path) ==
    Exists(files, original_path) /\ original_path # current_path

\* faulty variant of PrunedLedger: the filter is inverted, the reverted keys are kept
PrunedLedgerInverted(data, reverted) ==
    MapWithout(data, Keys(data) \ SeqToSet(reverted))

\* updated_backup = {k: v for k, v in backup_data.items() if k not in reverted_items}
PrunedLedger(data, reverted) == MapWithout(data, SeqToSet(reverted))

\* the ledger file after the `if reverted_items:` block, for each way the write can go
LedgerAfterPrune(file, data, reverted, write) ==
    IF reverted = <<>> THEN file
    ELSE LET updated_backup == PrunedLedger(data, reverted)
         IN  IF write = "open_fails" THEN file           \* open(..., 'w') or unlink raises
             ELSE IF updated_backup = <<>> THEN Absent   \* backup_file.unlink()
             ELSE IF write = "dump_fails" THEN Corrupt   \* truncated, then json.dump raises
             ELSE Valid(updated_backup)

\* faulty variant of UndoEarlyReturn: the checks for an empty ledger and for no
\* revertible file are left out
UndoEarlyReturnUnchecked(file, rev) ==
    IF file.state = "absent" THEN "no_backup"
    ELSE IF file.state = "corrupt" THEN "unreadable"
    ELSE "ask"

\* the early returns of undo_renames before its prompt, in the order of the code
UndoEarlyReturn(file, rev) ==
    IF file.state = "absent" THEN "no_backup"                \* if not backup_file.exists()
    ELSE IF file.state = "corrupt" THEN "unreadable"         \* json.load raises
    ELSE IF file.data = <<>> THEN "empty"                    \* if not backup_data
    ELSE IF rev = <<>> THEN "none_revertible"                \* if not revertible_files
    ELSE "ask"

\* From the menu to the confirmation prompt: find and load the ledger, split its
\* entries into revertible and missing, report conflicts.  The operation returns
\* early when there is nothing to revert.
UndoScan ==
    /\ pc = "menu"
    /\ LET rev   == Revertible(backup_file.data, fs)
           early == UndoEarlyReturn(backup_file, rev)
       IN  IF early # "ask"
           THEN /\ report' = [op |-> "undo", outcome |-> early]
                /\ UNCHANGED <<pc, backup_data, revertible_files>>
           ELSE /\ report' = [op |-> "undo", outcome |-> "listed"]
                /\ pc' = "undo_prompt"
                /\ backup_data' = backup_file.data
                /\ revertible_files' = rev
    /\ typed' = NoAnswer
    /\ UNCHANGED <<folderVars, renameVars, idx, reverted_items, reverted_count,
                   skipped_count, sessions, failures, batch, since_batch, matchVars, textVars>>

\* proceed = input("Proceed with reverting ...").strip().lower()
UndoConfirm(answer) ==
    /\ pc = "undo_prompt"
    /\ typed' = answer
    /\ IF ~IsAffirmative(answer)
       THEN /\ report' = [op |-> "undo", outcome |-> "cancelled"]
            /\ pc' = "menu"
            /\ backup_data' = <<>>
            /\ revertible_files' = <<>>
            /\ UNCHANGED <<idx, reverted_items, reverted_count, skipped_count>>
       ELSE /\ report' = [op |-> "undo", outcome |-> "reverting"]
            /\ pc' = "undo_loop"
            /\ idx' = 1
            /\ reverted_items' = <<>>
            /\ reverted_count' = 0
            /\ skipped_count' = 0
            /\ UNCHANGED <<backup_data, revertible_files>>
    /\ since_batch' = IF IsAffirmative(answer) THEN [since_batch EXCEPT !.moved = {}]
                      ELSE since_batch
    /\ UNCHANGED <<folderVars, renameVars, sessions, failures, batch, matchVars, textVars>>

\* One iteration of `for current_path, original_path, ... in revertible_files:`
UndoItem(raises) ==
    /\ pc = "undo_loop"
    /\ LET current_path  == revertible_files[idx].current
           original_path == revertible_files[idx].original
       IN  /\ dirs' = dirs \cup {original_path.dir}      \* parent.mkdir(parents, exist_ok)
           /\ IF UndoBlocked(fs, current_path, original_path)
              THEN /\ ~raises
                   /\ skipped_count' = skipped_count + 1
                   /\ UNCHANGED <<fs, reverted_items, reverted_count, failures, since_batch>>
              ELSE IF raises \/ ~Exists(fs, current_path)
              THEN /\ raises => failures < MaxFailures
                   /\ failures' = failures + 1
                   /\ since_batch' = [since_batch EXCEPT !.io_failed = TRUE]
                   /\ UNCHANGED <<fs, reverted_items, reverted_count, skipped_count>>
              ELSE /\ fs' = Move(fs, current_path, original_path)
                   /\ reverted_count' = reverted_count + 1
                   /\ reverted_items' = Append(reverted_items, current_path)
                   /\ since_batch' = [since_batch EXCEPT !.moved = @ \cup {current_path}]
                   /\ UNCHANGED <<skipped_count, failures>>
    /\ idx' = idx + 1
    /\ typed' = NoAnswer
    /\ pc' = IF idx = Len(revertible_files) THEN "undo_save" ELSE "undo_loop"
    /\ UNCHANGED <<backup_file, renameVars, backup_data, revertible_files, report,
                   sessions, batch, matchVars, textVars>>

\* After the loop: drop the reverted keys from the ledger file, or delete it when empty
UndoSave(write) ==
    /\ pc = "undo_save"
    /\ (write # "ok") => (reverted_items # <<>> /\ failures < MaxFailures)
    /\ (write = "dump_fails") => PrunedLedger(backup_data, reverted_items) # <<>>
    /\ backup_file' = LedgerAfterPrune(backup_file, backup_data, reverted_items, write)
    /\ failures' = IF write # "ok" THEN failures + 1 ELSE failures
    /\ since_batch' = [since_batch EXCEPT
                          !.undo_passes = Min(@ + 1, PassesCounted),
                          !.io_failed = @ \/ write # "ok"]
    /\ report' = [op |-> "undo",
                  outcome |-> IF write # "ok" THEN "reverted_backup_warning" ELSE "reverted"]
    /\ typed' = NoAnswer
    /\ pc' = "menu"
    /\ idx' = 0 /\ backup_data' = <<>> /\ revertible_files' = <<>>
    /\ reverted_items' = <<>> /\ reverted_count' = 0 /\ skipped_count' = 0
    /\ UNCHANGED <<fs, dirs, renameVars, sessions, batch, matchVars, textVars>>

(***************************************************************************)
(* The menu loop                                                           *)
(***************************************************************************)
\* the text functions are not being exercised
NoText ==
    /\ t_pc = "idle"
    /\ t_text = <<>>
    /\ t_clean = <<>>
    /\ t_twice = <<>>
    /\ t_words = <<>>

Init ==
    /\ \E folder \in InitialFolders :
          /\ fs = [p \in folder |-> p]
          /\ dirs = {Root} \cup {p.dir : p \in folder}
    /\ backup_file \in {Absent, Valid(<<>>), Corrupt}
    /\ pc = "menu"
    /\ matches = <<>>
    /\ idx = 0
    /\ rename_history = <<>>
    /\ renamed_count = 0
    /\ backup_data = <<>>
    /\ revertible_files = <<>>
    /\ reverted_items = <<>>
    /\ reverted_count = 0
    /\ skipped_count = 0
    /\ report = [op |-> None, outcome |-> None]
    /\ sessions = 0
    /\ failures = 0
    /\ typed = NoAnswer
    /\ batch = EmptyBatch
    /\ since_batch = Quiet
    /\ m_pdf_name = <<>>
    /\ name_to_number \in RenameTables
    /\ m_idx = 0
    /\ m_state = InitialBest
    /\ m_out = Pending
    /\ m_pair = NoPair
    /\ NoText

Next ==
    \/ /\ sessions < MaxSessions
       /\ \E listing \in Orderings(DOMAIN fs) : RenameScan(listing)
    \/ \E answer \in Answers : RenameConfirm(answer)
    \/ \E raises \in BOOLEAN : RenameItem(raises)
    \/ \E write \in WriteOutcomes : RenameSave(write)
    \/ UndoScan
    \/ \E answer \in Answers : UndoConfirm(answer)
    \/ \E raises \in BOOLEAN : UndoItem(raises)
    \/ \E write \in WriteOutcomes : UndoSave(write)

Spec == Init /\ [][Next]_vars

(***************************************************************************)
(* Rename sessions followed by repeated undo: every prompt is answered     *)
(* 'y', no I/O call fails, and no rename is started once an undo pass has  *)
(* run.  An operation that has started runs to its end, and the user keeps *)
(* choosing undo from the menu.                                            *)
(***************************************************************************)
\* confirmed rename batches before the first undo pass
MaxConvergeSessions == 3

\* rows of the reference table of these sessions: a renamed file matches again
ConvergePool ==
    { Entry(<<"7">> \o PlanNorth, <<"7","7">>),
      Entry(<<"7","7","7">> \o PlanNorth, <<"7">>) }

ConvergeTables == TablesOver(ConvergePool, MaxTable)

InitConverge ==
    /\ \E folder \in InitialFolders :
          /\ fs = [p \in folder |-> p]
          /\ dirs = {Root} \cup {p.dir : p \in folder}
    /\ backup_file \in {Absent, Valid(<<>>)}
    /\ pc = "menu"
    /\ matches = <<>>
    /\ idx = 0
    /\ rename_history = <<>>
    /\ renamed_count = 0
    /\ backup_data = <<>>
    /\ revertible_files = <<>>
    /\ reverted_items = <<>>
    /\ reverted_count = 0
    /\ skipped_count = 0
    /\ report = [op |-> None, outcome |-> None]
    /\ sessions = 0
    /\ failures = 0
    /\ typed = NoAnswer
    /\ batch = EmptyBatch
    /\ since_batch = Quiet
    /\ m_pdf_name = <<>>
    /\ name_to_number \in ConvergeTables
    /\ m_idx = 0
    /\ m_state = InitialBest
    /\ m_out = Pending
    /\ m_pair = NoPair
    /\ NoText

NextConverge ==
    \/ /\ sessions < MaxConvergeSessions
       /\ since_batch.undo_passes = 0
       /\ \E listing \in Orderings(DOMAIN fs) : RenameScan(listing)
    \/ RenameConfirm(<<"y">>)
    \/ RenameItem(FALSE)
    \/ RenameSave("ok")
    \/ UndoScan
    \/ UndoConfirm(<<"y">>)
    \/ UndoItem(FALSE)
    \/ UndoSave("ok")

FairConverge ==
    /\ WF_vars(RenameConfirm(<<"y">>))
    /\ WF_vars(RenameItem(FALSE))
    /\ WF_vars(RenameSave("ok"))
    /\ WF_vars(UndoScan)
    /\ WF_vars(UndoConfirm(<<"y">>))
    /\ WF_vars(UndoItem(FALSE))
    /\ WF_vars(UndoSave("ok"))

SpecConverge == InitConverge /\ [][NextConverge]_vars /\ FairConverge

(***************************************************************************)
(* The matching loop on its own: one file against a reference table        *)
(***************************************************************************)
\* entries of the reference table the matcher is run against
MaxRefs == 3

\* stems of the files under analysis
StemPool ==
    { <<"S","i","t","e","_","P","l","a","n",".","N","o","r","t","h">>,
      <<"7","s","i","t","e"," ","p","l","a","n"," ","n","o","r","t","h">>,
      <<"s","i","t","e"," ","p","l","a","n"," ","n","o","r">>,
      <<"a","b","c"," ","d","e","f","g","h">>,
      <<"d","r","a","w","i","n","g","s">>,
      <<"s","i","t","e"," ","p","l","a","n"," ","n","o","r","t","h"," ","r","e","v">>,
      <<"s","i","t","e"," ","p","l","a","n"," ","n","r","o","t","h">>,
      <<"a","b","c"," ","a","b","c"," ","d","e">>,
      <<"t","e"," ","p","l","a","n"," ","n","o">> }

\* rows of the reference table (two of them normalize to the same name)
RefPool ==
    { Entry(<<"s","i","t","e"," ","p","l","a","n"," ","n","o","r","t","h">>, <<"7">>),
      Entry(<<"p","l","a","n"," ","n","o","r","t","h">>, <<"1","2">>),
      Entry(<<"a","b","c"," ","d","e","f","g">>, <<"3">>),
      Entry(<<"d","r","a","w","i","n","g">>, <<"4">>),
      Entry(<<"S","i","t","e","-","P","l","a","n"," ","N","o","r","t","h">>, <<"8">>) }

MatchTables == TablesOver(RefPool, MaxRefs)

\* One iteration of `for doc_name, doc_number in name_to_number.items()`; an exact
\* hit leaves the loop (break)
MatchEntry ==
    /\ m_out = Pending
    /\ m_idx <= Len(name_to_number)
    /\ ~m_state.matched
    /\ m_state' = LoopStep(m_state, m_pdf_name, name_to_number[m_idx])
    /\ m_idx' = m_idx + 1
    /\ m_pair' = PairOf(m_pdf_name, name_to_number[m_idx])
    /\ UNCHANGED <<m_pdf_name, name_to_number, m_out, textVars>>
    /\ UNCHANGED <<folderVars, pc, renameVars, idx, undoVars, report, typed,
                   sessions, failures, batch, since_batch>>

\* After the loop: append to matches, or to unmatched_pdfs
MatchFinish ==
    /\ m_out = Pending
    /\ m_idx > Len(name_to_number) \/ m_state.matched
    /\ m_out' = Outcome(m_state)
    /\ UNCHANGED <<m_pdf_name, name_to_number, m_idx, m_state, m_pair, textVars>>
    /\ UNCHANGED <<folderVars, pc, renameVars, idx, undoVars, report, typed,
                   sessions, failures, batch, since_batch>>

\* no folder is being worked on
NoFolder ==
    /\ fs = <<>>
    /\ dirs = {Root}
    /\ backup_file = Absent
    /\ matches = <<>>
    /\ idx = 0
    /\ rename_history = <<>>
    /\ renamed_count = 0
    /\ backup_data = <<>>
    /\ revertible_files = <<>>
    /\ reverted_items = <<>>
    /\ reverted_count = 0
    /\ skipped_count = 0
    /\ report = [op |-> None, outcome |-> None]
    /\ sessions = 0
    /\ failures = 0
    /\ typed = NoAnswer
    /\ batch = EmptyBatch
    /\ since_batch = Quiet

InitMatch ==
    /\ m_pdf_name \in StemPool
    /\ name_to_number \in MatchTables
    /\ m_idx = 1
    /\ m_state = InitialBest
    /\ m_out = Pending
    /\ m_pair = NoPair
    /\ NoText
    /\ fs = <<>>
    /\ dirs = {Root}
    /\ backup_file = Absent
    /\ pc = "matching"
    /\ matches = <<>>
    /\ idx = 0
    /\ rename_history = <<>>
    /\ renamed_count = 0
    /\ backup_data = <<>>
    /\ revertible_files = <<>>
    /\ reverted_items = <<>>
    /\ reverted_count = 0
    /\ skipped_count = 0
    /\ report = [op |-> None, outcome |-> None]
    /\ sessions = 0
    /\ failures = 0
    /\ typed = NoAnswer
    /\ batch = EmptyBatch
    /\ since_batch = Quiet

NextMatch == MatchEntry \/ MatchFinish

SpecMatch == InitMatch /\ [][NextMatch]_vars

(***************************************************************************)
(* The text functions on their own                                         *)
(***************************************************************************)
\* length of the generated arguments
MaxText == 3

\* characters of the generated arguments: letters of both cases, a separator, a
\* space, a digit, and U+0130, whose lowercase is two code points
TextChars == {"a", "B", "_", " ", "1", "I_dot"}

TheNewReport == <<"t","h","e","_","n","e","w","_","r","e","p","o","r","t",".","p","d","f">>

TextPool ==
    UNION {[1..n -> TextChars] : n \in 0..MaxText} \cup {TheNewReport}

\* cleaned = clean_text_for_matching(text)
Normalize ==
    /\ t_pc = "input"
    /\ t_clean' = clean_text_for_matching(t_text)
    /\ t_pc' = "cleaned"
    /\ UNCHANGED <<t_text, t_twice, t_words>>
    /\ UNCHANGED <<folderVars, pc, renameVars, idx, undoVars, report, typed,
                   sessions, failures, batch, since_batch, matchVars>>

\* the function applied to its own result
NormalizeAgain ==
    /\ t_pc = "cleaned"
    /\ t_twice' = clean_text_for_matching(t_clean)
    /\ t_pc' = "twice"
    /\ UNCHANGED <<t_text, t_clean, t_words>>
    /\ UNCHANGED <<folderVars, pc, renameVars, idx, undoVars, report, typed,
                   sessions, failures, batch, since_batch, matchVars>>

\* words = extract_meaningful_words(text)
Tokenize ==
    /\ t_pc = "input"
    /\ t_words' = extract_meaningful_words(t_text)
    /\ t_pc' = "tokenized"
    /\ UNCHANGED <<t_text, t_clean, t_twice>>
    /\ UNCHANGED <<folderVars, pc, renameVars, idx, undoVars, report, typed,
                   sessions, failures, batch, since_batch, matchVars>>

InitText ==
    /\ t_pc = "input"
    /\ t_text \in TextPool
    /\ t_clean = <<>>
    /\ t_twice = <<>>
    /\ t_words = <<>>
    /\ NoFolder
    /\ pc = "text"
    /\ m_pdf_name = <<>>
    /\ name_to_number = <<>>
    /\ m_idx = 0
    /\ m_state = InitialBest
    /\ m_out = Pending
    /\ m_pair = NoPair

NextText == Normalize \/ NormalizeAgain \/ Tokenize

SpecText == InitText /\ [][NextText]_vars

(***************************************************************************)
(* Properties of the two operations                                        *)
(***************************************************************************)
LedgerKeys == IF backup_file.state = "valid" THEN Keys(backup_file.data) ELSE {}

\* the path the step about to run would put a file at, and the file it would move
StepSource ==
    IF pc = "rename_loop" THEN matches[idx].pdf_file
    ELSE IF pc = "undo_loop" THEN revertible_files[idx].current
    ELSE None

StepTarget ==
    IF pc = "rename_loop" THEN NewPath(matches[idx])
    ELSE IF pc = "undo_loop" THEN revertible_files[idx].original
    ELSE None

\* C1: after a confirmed rename batch and then one confirmed undo pass, with no
\* I/O failure in either, every file the batch renamed is back at its original
\* path and its key is no longer in the ledger.
C1_RoundTrip ==
    (pc = "menu" /\ since_batch.undo_passes = 1 /\ ~since_batch.io_failed)
    => \A r \in batch.renamed :
          /\ Exists(fs, r.original)
          /\ fs[r.original] = r.file
          /\ r.new \notin LedgerKeys

\* C2: a rename or an undo move whose target path already holds a file leaves
\* the folder as it is and counts nothing as done, and no step removes or
\* changes any file other than the one it moves.
C2_CollisionSafety ==
    [][ /\ (pc \in {"rename_loop", "undo_loop"}
              /\ Exists(fs, StepTarget) /\ StepTarget # StepSource)
           => (fs' = fs /\ renamed_count' = renamed_count
                        /\ reverted_count' = reverted_count
                        /\ rename_history' = rename_history
                        /\ reverted_items' = reverted_items)
        /\ \A p \in DOMAIN fs :
              (pc \notin {"rename_loop", "undo_loop"} \/ p # StepSource)
                 => (p \in DOMAIN fs' /\ fs'[p] = fs[p]) ]_vars

\* a file was skipped because an earlier rename of the same batch took its target
C2_Witness ==
    \E s \in batch.skipped : \E r \in batch.renamed : r.new = s.new /\ Exists(fs, s.original)

\* C3: a file whose rename fails is not counted as renamed, and the ledger saved
\* at the end of the batch has no entry for its intended new path.
C3_FailedNotInLedger ==
    /\ (pc \in {"rename_loop", "rename_save"})
          => renamed_count = Cardinality(batch.renamed)
    /\ (pc = "menu" /\ report = [op |-> "rename", outcome |-> "renamed"])
          => \A f \in batch.failed : f.new \notin LedgerKeys

\* C4: after a confirmed batch whose ledger write does not fail, the ledger holds
\* new path -> original path for every rename of the batch that succeeded,
\* whether the ledger file was absent, valid or unparsable before.
C4_LedgerHasRenames ==
    (pc = "menu" /\ report.op = "rename"
        /\ report.outcome \in {"renamed", "renamed_backup_unreadable"})
    => \A r \in batch.renamed :
          /\ backup_file.state = "valid"
          /\ HasKey(backup_file.data, r.new)
          /\ Lookup(backup_file.data, r.new) = r.original

\* the ledger a confirmed undo pass is to leave: the entries it loaded, minus the
\* keys it moved back; no file when none remains
LedgerExpectedAfterUndo ==
    LET remaining == SelectSeq(backup_file.data, LAMBDA e : e.key \notin since_batch.moved)
    IN  IF remaining = <<>> THEN Absent ELSE Valid(remaining)

Yes == {<<"y">>, <<"y", "e", "s">>}

\* C6 (as stated): at the rename or undo prompt, any answer other than 'y' or
\* 'yes' ends the operation with the folder and the ledger unchanged.
C6_ConfirmationGate ==
    [][ (pc \in {"rename_prompt", "undo_prompt"} /\ typed' \notin Yes)
           => (pc' = "menu" /\ UNCHANGED folderVars) ]_vars

\* C6 (amended): at the rename or undo prompt, any answer that is not 'y' or
\* 'yes' once surrounding whitespace is trimmed and letters are lowercased ends
\* the operation with the folder and the ledger unchanged.
C6_ConfirmationGateTrimmed ==
    [][ (pc \in {"rename_prompt", "undo_prompt"} /\ LowerStr(Strip(typed')) \notin Yes)
           => (pc' = "menu" /\ UNCHANGED folderVars) ]_vars

\* the undo prompt was answered 'n' and the operation was cancelled
C6_Witness ==
    /\ pc = "menu"
    /\ report = [op |-> "undo", outcome |-> "cancelled"]
    /\ typed = <<"n">>

\* C7: undo with the ledger file missing, or holding an empty mapping, changes
\* nothing, reports that there is nothing to undo and ends before the prompt;
\* this holds each time it is run.
C7_UndoNothing ==
    [][ (pc = "menu" /\ report'.op = "undo"
            /\ (backup_file.state = "absent"
                  \/ (backup_file.state = "valid" /\ backup_file.data = <<>>)))
           => /\ pc' = "menu"
              /\ UNCHANGED folderVars
              /\ report'.outcome = (IF backup_file.state = "absent"
                                    THEN "no_backup" ELSE "empty") ]_vars

\* undo ran against a ledger file holding an empty mapping, with files in the folder
C7_Witness ==
    /\ report = [op |-> "undo", outcome |-> "empty"]
    /\ backup_file = Valid(<<>>) /\ pc = "menu" /\ DOMAIN fs # {}

\* C8 (as stated, for runs without any I/O failure): whenever the ledger file is
\* written, every key in it names a path that exists on disk at that time.
C8_KeysExistWhenWritten ==
    [][ (backup_file' # backup_file /\ backup_file'.state = "valid" /\ failures' = 0)
           => \A k \in Keys(backup_file'.data) : Exists(fs', k) ]_vars

\* C8 (amended): when a rename batch writes the ledger file, every rename of the
\* batch that succeeded has its new path as a key of the written ledger, and
\* that path exists on disk at that time.
C8_BatchKeysExistWhenWritten ==
    [][ (pc = "rename_save" /\ backup_file' # backup_file /\ backup_file'.state = "valid")
           => \A r \in batch.renamed :
                 /\ HasKey(backup_file'.data, r.new)
                 /\ Lookup(backup_file'.data, r.new) = r.original
                 /\ Exists(fs', r.new) ]_vars

\* a batch wrote the ledger with its renames next to an older key whose file is gone
C8_Witness ==
    /\ pc = "menu" /\ report = [op |-> "rename", outcome |-> "renamed"]
    /\ batch.renamed # {}
    /\ \E k \in LedgerKeys :
          ~Exists(fs, k) /\ k \notin {x.new : x \in batch.renamed \cup batch.failed}


\* the reference table without its i-th row
WithoutRow(table, i) == SubSeq(table, 1, i - 1) \o SubSeq(table, i + 1, Len(table))

NormalizedEqual(a, b) == clean_text_for_matching(a) = clean_text_for_matching(b)

\* the rows of the table whose normalized name equals the normalized stem
ExactRows == {i \in DOMAIN name_to_number :
                 NormalizedEqual(m_pdf_name, name_to_number[i].name)}

\* C9: when the normalized stem equals the normalized name of some reference
\* entry, the file is matched with strategy exact to the first such entry in
\* table order, whatever the other entries are and wherever they stand.
C9_ExactPrecedence ==
    (m_out # Pending /\ ExactRows # {})
    => LET first == name_to_number[CHOOSE i \in ExactRows : \A j \in ExactRows : i <= j]
       IN  /\ m_out.kind = "match"
           /\ m_out.match_type = "exact"
           /\ m_out.matched_name = first.name
           /\ m_out.doc_number = first.number

\* an exact hit stands in the table after an entry that scored under another strategy
C9_Witness ==
    /\ m_out # Pending /\ ExactRows # {}
    /\ m_state.best_match # None
    /\ \E i \in DOMAIN name_to_number : i \notin ExactRows /\ \A j \in ExactRows : i < j
    /\ Cardinality(ExactRows) = 2

\* row i is no exact hit and scores strictly below the best candidate of the other rows
Inferior(i) ==
    LET rest == LoopFrom(InitialBest, m_pdf_name, WithoutRow(name_to_number, i), 1)
        c    == Candidate(m_pdf_name, name_to_number[i].name)
    IN  /\ ~rest.matched
        /\ rest.best_match # None
        /\ ~NormalizedEqual(m_pdf_name, name_to_number[i].name)
        /\ c.type # "none" => FGt(rest.best_score, c.score)

\* C10: for a file with no exact hit, a table that has, at any position, one more
\* entry that is no exact hit and scores strictly below the best candidate of the
\* others gives the same match (name, number, strategy) as the table without it.
C10_InferiorEntryIgnored ==
    m_out # Pending
    => \A i \in DOMAIN name_to_number :
          Inferior(i) => m_out = MatchFile(m_pdf_name, WithoutRow(name_to_number, i))

\* the inferior entry is a real candidate, it stands after the entry chosen, and
\* the file is matched
C10_Witness ==
    /\ m_out # Pending
    /\ m_out.kind = "match"
    /\ \E i \in DOMAIN name_to_number :
          /\ Inferior(i)
          /\ Candidate(m_pdf_name, name_to_number[i].name).type # "none"
          /\ \E j \in 1..(i - 1) : name_to_number[j].name = m_out.matched_name


\* C11: normalizing twice gives the same string as normalizing once, for every
\* input string.
C11_NormalizeIdempotent ==
    t_pc = "twice" => t_twice = t_clean

\* C12 (as stated): "the_new_report.pdf" tokenizes to exactly ["new", "report"].
C12_TokensNewReport ==
    (t_pc = "tokenized" /\ t_text = TheNewReport)
    => t_words = << <<"n","e","w">>, <<"r","e","p","o","r","t">> >>

\* C12 (amended): "the_new_report.pdf" tokenizes to exactly ["report", "pdf"]:
\* "the" and "new" are stop words, and the dot separates "pdf" as a word of its own.
C12_TokensReportPdf ==
    (t_pc = "tokenized" /\ t_text = TheNewReport)
    => t_words = << <<"r","e","p","o","r","t">>, <<"p","d","f">> >>

\* the example file name has been tokenized
C12_Witness ==
    t_pc = "tokenized" /\ t_text = TheNewReport /\ Len(t_words) = 2


\* the tokens of the file under analysis and of the entry of the last iteration
PairFileTokens == extract_meaningful_words(m_pdf_name)
PairRefTokens  == extract_meaningful_words(m_pair.name)

\* the last iteration handled an entry that is no exact hit
PairDone == m_idx > 1 /\ ~m_pair.exact

RecordedTypes == {m_pair.recorded[i].type : i \in DOMAIN m_pair.recorded}

\* Jaccard index plus bonus (0.1 per common token, at most 0.3), compared with
\* 0.7 in integers: common / all + min(common, 3) / 10  against  7 / 10
OverlapCommon == Cardinality(SeqToSet(PairFileTokens) \cap SeqToSet(PairRefTokens))
OverlapAll    == Cardinality(SeqToSet(PairFileTokens) \cup SeqToSet(PairRefTokens))
OverlapIsSevenTenths ==
    10 * OverlapCommon + Min(OverlapCommon, 3) * OverlapAll = 7 * OverlapAll
OverlapAboveSevenTenths ==
    10 * OverlapCommon + Min(OverlapCommon, 3) * OverlapAll > 7 * OverlapAll

\* C13: for a pair with at least 2 tokens on each side, a word-overlap score of
\* exactly 0.7 records no word-overlap candidate, and a score above 0.7 records one.
C13_OverlapThresholdStrict ==
    (PairDone /\ Len(PairFileTokens) >= 2 /\ Len(PairRefTokens) >= 2)
    => /\ OverlapIsSevenTenths => "word_overlap" \notin RecordedTypes
       /\ OverlapAboveSevenTenths => RecordedTypes = {"word_overlap"}

\* a pair scoring exactly 0.7 came after an entry recorded under word overlap
C13_Witness ==
    /\ PairDone /\ Len(PairFileTokens) >= 2 /\ Len(PairRefTokens) >= 2
    /\ OverlapIsSevenTenths
    /\ m_state.best_match_type = "word_overlap"

\* some entry of the table gives the file a candidate scoring above 0.5
SomeCandidateAboveHalf ==
    \E i \in DOMAIN name_to_number :
       LET c == Candidate(m_pdf_name, name_to_number[i].name)
       IN  c.type # "none" /\ FGt(c.score, Frac(1, 2))

\* C14: every file ends either matched or unmatched, and a file with no exact
\* hit is matched iff its best candidate over all entries scores above 0.5.
C14_AcceptanceThreshold ==
    m_out # Pending
    => /\ m_out.kind \in {"match", "unmatched"}
       /\ ExactRows = {} => (m_out.kind = "match" <=> SomeCandidateAboveHalf)
       /\ (ExactRows = {} /\ m_out.kind = "match")
             => \E i \in DOMAIN name_to_number :
                   /\ name_to_number[i].name = m_out.matched_name
                   /\ name_to_number[i].number = m_out.doc_number
                   /\ Candidate(m_pdf_name, m_out.matched_name).type = m_out.match_type

\* a file whose best candidate scores exactly 0.5 ended unmatched
C14_Witness ==
    /\ m_out # Pending /\ m_out.kind = "unmatched"
    /\ m_state.best_match_type # None
    /\ FEq(m_state.best_score, Frac(1, 2))

\* C15: a pair that is no exact hit records a candidate under at most one of the
\* strategies, an exact hit records none, and one iteration changes the best
\* record only to the candidate it recorded.
C15_StrategyExclusive ==
    [][ /\ Len(m_pair'.recorded) <= 1
        /\ m_pair'.exact => m_pair'.recorded = <<>>
        /\ (m_state'.best_match # m_state.best_match
               \/ m_state'.best_match_type # m_state.best_match_type)
           => /\ Len(m_pair'.recorded) = 1
              /\ m_state'.best_match = m_pair'.name
              /\ m_state'.best_match_type = m_pair'.recorded[1].type
              /\ m_state'.best_score = m_pair'.recorded[1].score ]_vars

\* a pair recorded under word overlap although its substring test passes too
C15_Witness ==
    /\ PairDone
    /\ RecordedTypes = {"word_overlap"}
    /\ SubstringCandidate(clean_text_for_matching(m_pdf_name),
                          clean_text_for_matching(m_pair.name)).type = "substring"

\* the distinct tokens of the file that fuzzy-match some token of the entry
DistinctFuzzyMatched ==
    {w \in SeqToSet(PairFileTokens) :
        \E j \in DOMAIN PairRefTokens : fuzzy_word_match(w, PairRefTokens[j])}

\* C16: a fuzzy-words candidate is recorded from the number of distinct file
\* tokens that fuzzy-match a reference token: that number is at least 2 and the
\* candidate's score is 0.7 times that number over the larger token count.
C16_FuzzyCountsDistinct ==
    (PairDone /\ "fuzzy_words" \in RecordedTypes)
    => /\ Cardinality(DistinctFuzzyMatched) >= 2
       /\ FEq(m_pair.recorded[1].score,
              FMul(Frac(Cardinality(DistinctFuzzyMatched),
                        Max(Len(PairFileTokens), Len(PairRefTokens))),
                   Frac(7, 10)))

\* C17: a pair whose normalized reference name is longer than 8 characters
\* records nothing under fuzzy words or high similarity.
C17_LongNameRouting ==
    (m_idx > 1 /\ Len(clean_text_for_matching(m_pair.name)) > 8)
    => RecordedTypes \subseteq {"word_overlap", "substring", "reverse"}

\* a long reference name recorded nothing although the similarity test passes
C17_Witness ==
    /\ PairDone
    /\ Len(clean_text_for_matching(m_pair.name)) > 8
    /\ m_pair.recorded = <<>>
    /\ SimilarityCandidate(clean_text_for_matching(m_pdf_name),
                           clean_text_for_matching(m_pair.name)).type = "high_similarity"


\* C18: once rename sessions have left entries in the ledger, repeated confirmed
\* undo with no I/O failure reverts them all: after finitely many passes the
\* ledger file is deleted.
C18_UndoConverges ==
    (backup_file.state = "valid" /\ backup_file.data # <<>>)
       ~> (backup_file.state = "absent")

====
